---- MODULE Spec2Model ----
(***************************************************************************)
(* A model of the cryptographic engine of tbx126/evoting:                  *)
(*   - crypto/merkle.py      MerkleTree (build, get_root, get_proof,       *)
(*                           verify_proof)                                 *)
(*   - backend/services/voting.py  VotingService (commitments + tree)      *)
(*   - crypto/elgamal.py     exponential ElGamal on a twisted Edwards      *)
(*                           curve, BSGS discrete log, one-hot tally       *)
(*   - crypto/paillier.py    Paillier tally, sequential and parallel       *)
(*                                                                         *)
(* Byte strings are sequences of blocks.  A block is a record              *)
(* [id, pre]: a raw block of input bytes has id >= 1 and pre = <<>>, and   *)
(* the 32-byte SHA-256 digest of the byte string s is the single block     *)
(* [id |-> 0, pre |-> s].  The digest is injective in s: SHA-256 is        *)
(* modelled as collision-free.  Concatenation of byte strings is \o.       *)
(*                                                                         *)
(* The curve arithmetic is the code's arithmetic, formula for formula, on  *)
(* a twisted Edwards curve of the same shape as BabyJubJub (a a square,    *)
(* d = a - 4 a non-square, cofactor 8, prime subgroup order) whose field   *)
(* is small enough for TLC's integers.                                     *)
(***************************************************************************)
EXTENDS Integers, Sequences, FiniteSets, TLC

VARIABLES
    leaves,           \* MerkleTree.leaves: the leaf digests of the last build
    tree,             \* MerkleTree.tree: the layers, leaf layer first
    data_list,        \* the caller's list handed to the last successful build
    commitments,      \* VotingService.commitments
    encrypted_votes,  \* the recorded ballots, one list of ciphertexts each
    verify_service,   \* the VotingService of api/verify.py: [commitments, leaves, tree]
    kp,               \* the ElGamalKeyPair in use: [sk, pk]
    inp,              \* the arguments drawn for a call
    crypto,           \* the PaillierCrypto object: [public_key, private_key]
    pc,               \* where homomorphic_tally_parallel stands
    futures,          \* the futures of executor.map, one per candidate
    totals,           \* totals of homomorphic_tally_parallel
    par_out,          \* what homomorphic_tally_parallel returned or raised
    ret               \* the last other call and what it returned or raised

merkle_vars == <<leaves, tree, data_list>>
service_vars == <<commitments, encrypted_votes, verify_service>>
elgamal_vars == <<kp, inp>>
pool_vars == <<crypto, pc, futures, totals, par_out>>

vars == <<leaves, tree, data_list, commitments, encrypted_votes, verify_service,
          kp, inp, crypto, pc, futures, totals, par_out, ret>>

----------------------------------------------------------------------------
(* Bounds of the model *)

MaxLeaves == 4        \* longest list handed to MerkleTree.build
MaxBound == 20        \* largest max_value handed to solve_dlog
MaxMessage == 6       \* largest message and max_value handed to encrypt, decrypt
MaxAddends == 2       \* longest list handed to homomorphic_add
MaxAddend == 2        \* largest plaintext in such a list
MaxBallots == 2       \* most ballots handed to homomorphic_tally
MaxCandidates == 2    \* largest num_candidates
MaxVotes == 2         \* largest max_votes handed to homomorphic_tally

----------------------------------------------------------------------------
(* Results of calls: a value returned, or an exception raised *)

Ok(v) == [raised |-> "", value |-> v]
Raise(e) == [raised |-> e, value |-> <<>>]
None == <<>>

(* 0-based indexing of a Python list *)
At(s, i) == s[i + 1]

(* the values of the variables a specification does not use *)
NoKey == [sk |-> 0, pk |-> <<0, 1>>]
NoInput == [kind |-> "none"]
NoCrypto == [public_key |-> [n |-> 0], private_key |-> [p |-> 0, q |-> 0]]
NoResult == [raised |-> "", value |-> <<>>]

MerkleIdle == leaves = <<>> /\ tree = <<>> /\ data_list = <<>>
ServiceIdle ==
    /\ commitments = <<>>
    /\ encrypted_votes = <<>>
    /\ verify_service = [commitments |-> <<>>, leaves |-> <<>>, tree |-> <<>>]
ElGamalIdle == kp = NoKey /\ inp = NoInput
PoolIdle ==
    /\ crypto = NoCrypto
    /\ pc = "idle"
    /\ futures = <<>>
    /\ totals = <<>>
    /\ par_out = NoResult

----------------------------------------------------------------------------
(* crypto/merkle.py *)

Atom(k) == [id |-> k, pre |-> <<>>]
SHA256(s) == <<[id |-> 0, pre |-> s]>>

hash_data(data) == SHA256(data)

hash_pair(left, right) == SHA256(left \o right)

(* mutant: the first node of an odd layer duplicated *)
PadOddFirst(level) ==
    IF Len(level) % 2 = 1 THEN Append(level, level[1]) ELSE level

(* current_level.append(current_level[-1]) when the layer is odd *)
PadOdd(level) ==
    IF Len(level) % 2 = 1 THEN Append(level, level[Len(level)]) ELSE level

(* the for loop of build: parents of adjacent pairs of an even layer *)
Parents(level) ==
    [i \in 1..(Len(level) \div 2) |-> hash_pair(level[2 * i - 1], level[2 * i])]

(* The while loop of build.  self.tree[0] is a copy of the leaf layer, so  *)
(* the duplicate appended to current_level never shows in it.  Every       *)
(* higher layer is appended to self.tree and then becomes current_level    *)
(* itself (the same list object), so the duplicate the next iteration      *)
(* appends to an odd layer of more than one node is stored in self.tree.   *)
RECURSIVE BuildUp(_)
BuildUp(current_level) ==
    IF Len(current_level) <= 1 THEN <<>>
    ELSE LET next_level == Parents(PadOdd(current_level))
             stored == IF Len(next_level) > 1 THEN PadOdd(next_level)
                       ELSE next_level
         IN  <<stored>> \o BuildUp(next_level)

BuildLeaves(dl) == [i \in 1..Len(dl) |-> hash_data(dl[i])]

BuildTree(dl) == <<BuildLeaves(dl)>> \o BuildUp(BuildLeaves(dl))

get_root(t) ==
    IF Len(t) = 0 THEN None
    ELSE IF Len(t[Len(t)]) > 0 THEN t[Len(t)][1] ELSE None

(* the loop of get_proof over level in range(len(self.tree) - 1);          *)
(* level is 0-based as in the code                                         *)
RECURSIVE ProofWalk(_, _, _)
ProofWalk(t, level, current_index) ==
    IF level >= Len(t) - 1 THEN <<>>
    ELSE LET level_nodes == At(t, level)
             n == Len(level_nodes)
         IN  IF n % 2 = 1 /\ current_index = n - 1
             THEN ProofWalk(t, level + 1, current_index \div 2)
             ELSE LET sibling_index == IF current_index % 2 = 0
                                       THEN current_index + 1
                                       ELSE current_index - 1
                      direction == IF current_index % 2 = 0 THEN "R" ELSE "L"
                      step == IF sibling_index < n
                              THEN <<[sibling |-> At(level_nodes, sibling_index),
                                      direction |-> direction]>>
                              ELSE <<>>
                  IN  step \o ProofWalk(t, level + 1, current_index \div 2)

(* mutant: the index one past the last leaf accepted *)
get_proof_inclusive(lv, t, index) ==
    IF index < 0 \/ index > Len(lv) THEN Raise("IndexError")
    ELSE Ok(ProofWalk(t, 0, index))

get_proof(lv, t, index) ==
    IF index < 0 \/ index >= Len(lv) THEN Raise("IndexError")
    ELSE Ok(ProofWalk(t, 0, index))

RECURSIVE FoldProof(_, _)
FoldProof(current_hash, proof) ==
    IF Len(proof) = 0 THEN current_hash
    ELSE FoldProof(IF proof[1].direction = "L"
                   THEN hash_pair(proof[1].sibling, current_hash)
                   ELSE hash_pair(current_hash, proof[1].sibling),
                   Tail(proof))

verify_proof(leaf_data, proof, root) ==
    FoldProof(hash_data(leaf_data), proof) = root

----------------------------------------------------------------------------
(* crypto/elgamal.py: field and curve arithmetic *)

FIELD_PRIME == 137
BABYJUBJUB_A == 7
BABYJUBJUB_D == 3
SUBGROUP_ORDER == 19
GENERATOR == <<7, 60>>
IDENTITY == <<0, 1>>

(* A ValueError raised inside the curve arithmetic propagates through      *)
(* every caller: NoPoint stands for it and is absorbing.                   *)
NoPoint == <<-1, -1>>

RECURSIVE _extended_gcd(_, _)
_extended_gcd(a, b) ==
    IF a = 0 THEN <<b, 0, 1>>
    ELSE LET r == _extended_gcd(b % a, a)
         IN  <<r[1], r[3] - (b \div a) * r[2], r[2]>>

(* -1 stands for the ValueError of a zero or non-invertible argument *)
_mod_inv(a, p) ==
    IF a = 0 THEN -1
    ELSE LET r == _extended_gcd(a % p, p)
         IN  IF r[1] # 1 THEN -1 ELSE r[2] % p

(* mutant: the addition law of the untwisted curve, a = 1 *)
point_add_untwisted(p1, p2) ==
    IF p1 = NoPoint \/ p2 = NoPoint THEN NoPoint
    ELSE LET p == FIELD_PRIME
             x1x2 == (p1[1] * p2[1]) % p
             y1y2 == (p1[2] * p2[2]) % p
             dx1x2y1y2 == (((BABYJUBJUB_D * x1x2) % p) * y1y2) % p
             x3_inv == _mod_inv((1 + dx1x2y1y2) % p, p)
             y3_inv == _mod_inv((1 - dx1x2y1y2) % p, p)
         IN  IF x3_inv = -1 \/ y3_inv = -1 THEN NoPoint
             ELSE <<(((p1[1] * p2[2] + p1[2] * p2[1]) % p) * x3_inv) % p,
                    (((y1y2 - x1x2) % p) * y3_inv) % p>>

point_add(p1, p2) ==
    IF p1 = NoPoint \/ p2 = NoPoint THEN NoPoint
    ELSE LET x1 == p1[1]
             y1 == p1[2]
             x2 == p2[1]
             y2 == p2[2]
             p == FIELD_PRIME
             a == BABYJUBJUB_A
             d == BABYJUBJUB_D
             x1x2 == (x1 * x2) % p
             y1y2 == (y1 * y2) % p
             dx1x2y1y2 == (((d * x1x2) % p) * y1y2) % p
             x3_num == (x1 * y2 + y1 * x2) % p
             x3_inv == _mod_inv((1 + dx1x2y1y2) % p, p)
             y3_num == (y1y2 - a * x1x2) % p
             y3_inv == _mod_inv((1 - dx1x2y1y2) % p, p)
         IN  IF x3_inv = -1 \/ y3_inv = -1 THEN NoPoint
             ELSE <<(x3_num * x3_inv) % p, (y3_num * y3_inv) % p>>

point_neg(point) ==
    IF point = NoPoint THEN NoPoint
    ELSE <<IF point[1] # 0 THEN FIELD_PRIME - point[1] ELSE 0, point[2]>>

point_sub(p1, p2) == point_add(p1, point_neg(p2))

(* the while loop of scalar_mul: double-and-add from the low bit *)
RECURSIVE ScalarLoop(_, _, _)
ScalarLoop(scalar, result, current) ==
    IF scalar <= 0 THEN result
    ELSE ScalarLoop(scalar \div 2,
                    IF scalar % 2 = 1 THEN point_add(result, current) ELSE result,
                    point_add(current, current))

scalar_mul(scalar, point) ==
    IF scalar % SUBGROUP_ORDER = 0 THEN IDENTITY
    ELSE ScalarLoop(scalar % SUBGROUP_ORDER, IDENTITY, point)

is_on_curve(point) ==
    LET x == point[1]
        y == point[2]
        p == FIELD_PRIME
        x2 == (x * x) % p
        y2 == (y * y) % p
        lhs == (BABYJUBJUB_A * x2 + y2) % p
        rhs == (1 + ((BABYJUBJUB_D * x2) % p) * y2) % p
    IN  lhs = rhs

point_eq(p1, p2) == p1[1] = p2[1] /\ p1[2] = p2[2]

----------------------------------------------------------------------------
(* crypto/elgamal.py: keys, encryption, decryption, discrete log *)

from_sk(sk) == [sk |-> sk, pk |-> scalar_mul(sk, GENERATOR)]

(* A decimal string: a sign and its characters after the sign; a character *)
(* 0..9 is that digit, any larger number is a character that is no digit   *)
RECURSIVE Digits(_)
Digits(v) == IF v < 10 THEN <<v>> ELSE Append(Digits(v \div 10), v % 10)

str(v) == IF v < 0 THEN [sign |-> "-", digits |-> Digits(-v)]
          ELSE [sign |-> "", digits |-> Digits(v)]

RECURSIVE DigitsValue(_)
DigitsValue(ds) ==
    IF Len(ds) = 0 THEN 0
    ELSE 10 * DigitsValue(SubSeq(ds, 1, Len(ds) - 1)) + ds[Len(ds)]

int(s) ==
    IF Len(s.digits) = 0 \/ \E i \in 1..Len(s.digits) : s.digits[i] > 9
    THEN Raise("ValueError")
    ELSE Ok(IF s.sign = "-" THEN -DigitsValue(s.digits) ELSE DigitsValue(s.digits))

(* ElGamalKeyPair.to_dict and ElGamalKeyPair.from_dict *)
to_dict(self) == [sk |-> str(self.sk), pk |-> <<str(self.pk[1]), str(self.pk[2])>>]

from_dict(data) ==
    LET sk == int(data.sk)
        x == int(data.pk[1])
        y == int(data.pk[2])
    IN  IF sk.raised # "" \/ x.raised # "" \/ y.raised # "" THEN Raise("ValueError")
        ELSE Ok([sk |-> sk.value, pk |-> <<x.value, y.value>>])

ElGamalCiphertext(c1, c2) == [c1 |-> c1, c2 |-> c2]

(* encrypt with the randomness given by the caller *)
encrypt_fixed_nonce(message, pk, randomness) ==
    ElGamalCiphertext(scalar_mul(1, GENERATOR),
                      point_add(scalar_mul(message, GENERATOR), scalar_mul(1, pk)))

encrypt(message, pk, randomness) ==
    LET c1 == scalar_mul(randomness, GENERATOR)
        r_pk == scalar_mul(randomness, pk)
        m_g == scalar_mul(message, GENERATOR)
        c2 == point_add(m_g, r_pk)
    IN  ElGamalCiphertext(c1, c2)

(* mutant: the shared secret added instead of subtracted *)
decrypt_to_point_added(ciphertext, sk) ==
    point_add(ciphertext.c2, scalar_mul(sk, ciphertext.c1))

decrypt_to_point(ciphertext, sk) ==
    LET sk_c1 == scalar_mul(sk, ciphertext.c1)
    IN  point_sub(ciphertext.c2, sk_c1)

(* math.isqrt: the floor of the square root *)
isqrt(v) == CHOOSE r \in 0..v : r * r <= v /\ (r + 1) * (r + 1) > v

(* the baby-step loop: the points IDENTITY, G, 2G, ... stored under the   *)
(* indices 0 .. step_size - 1, as the sequence of the keys in order        *)
RECURSIVE BabyLoop(_, _, _)
BabyLoop(j, current, step_size) ==
    IF j >= step_size THEN <<>>
    ELSE <<current>> \o BabyLoop(j + 1, point_add(current, GENERATOR), step_size)

(* baby_steps is a dict: a later j overwrites an earlier one on a key *)
InBabySteps(baby, point) == \E j \in 1..Len(baby) : baby[j] = point

BabyStepOf(baby, point) ==
    CHOOSE j \in 0..(Len(baby) - 1) :
        /\ At(baby, j) = point
        /\ \A j2 \in 0..(Len(baby) - 1) : At(baby, j2) = point => j2 <= j

(* mutant: a match is returned without the test m <= max_value *)
RECURSIVE GiantLoopUnbounded(_, _, _, _, _, _)
GiantLoopUnbounded(i, current, giant_step, baby, step_size, max_value) ==
    IF i > step_size THEN Raise("ValueError")
    ELSE IF current = NoPoint THEN Raise("ValueError")
    ELSE IF InBabySteps(baby, current)
         THEN Ok(i * step_size + BabyStepOf(baby, current))
         ELSE GiantLoopUnbounded(i + 1, point_add(current, giant_step), giant_step,
                                 baby, step_size, max_value)

(* the giant-step loop of solve_dlog, from iteration i on *)
RECURSIVE GiantLoop(_, _, _, _, _, _)
GiantLoop(i, current, giant_step, baby, step_size, max_value) ==
    IF i > step_size THEN Raise("ValueError")
    ELSE IF current = NoPoint THEN Raise("ValueError")
    ELSE IF InBabySteps(baby, current)
            /\ i * step_size + BabyStepOf(baby, current) <= max_value
         THEN Ok(i * step_size + BabyStepOf(baby, current))
         ELSE GiantLoop(i + 1, point_add(current, giant_step), giant_step,
                        baby, step_size, max_value)

(* mutant: the step size from the square root rounded up *)
StepSizeCeil(max_value) ==
    (CHOOSE c \in 0..max_value : c * c >= max_value
                                  /\ (c = 0 \/ (c - 1) * (c - 1) < max_value)) + 1

(* step_size = int(math.isqrt(max_value)) + 1 *)
StepSize(max_value) == isqrt(max_value) + 1

(* the values of i the giant-step loop examines, in order, up to the       *)
(* iteration that returns                                                  *)
RECURSIVE GiantExamined(_, _, _, _, _, _)
GiantExamined(i, current, giant_step, baby, step_size, max_value) ==
    IF i > step_size \/ current = NoPoint THEN <<>>
    ELSE IF InBabySteps(baby, current)
            /\ i * step_size + BabyStepOf(baby, current) <= max_value
         THEN <<i>>
         ELSE <<i>> \o GiantExamined(i + 1, point_add(current, giant_step),
                                     giant_step, baby, step_size, max_value)

(* what a call of solve_dlog computes on its way: the step size, the keys  *)
(* of baby_steps in the order of j, and the iterations of the second loop; *)
(* nothing when the point is the identity                                  *)
solve_dlog_trace(point, max_value) ==
    IF point = NoPoint \/ point_eq(point, IDENTITY)
    THEN [step_size |-> 0, baby_steps |-> <<>>, examined |-> <<>>]
    ELSE LET step_size == StepSize(max_value)
             baby_steps == BabyLoop(0, IDENTITY, step_size)
             giant_step == point_neg(scalar_mul(step_size, GENERATOR))
         IN  [step_size |-> step_size, baby_steps |-> baby_steps,
              examined |-> GiantExamined(0, point, giant_step, baby_steps,
                                         step_size, max_value)]

(* mutant: the step size without its + 1 *)
solve_dlog_short_step(point, max_value) ==
    IF point = NoPoint THEN Raise("ValueError")
    ELSE IF point_eq(point, IDENTITY) THEN Ok(0)
    ELSE LET step_size == isqrt(max_value)
             baby_steps == BabyLoop(0, IDENTITY, step_size)
             giant_step == point_neg(scalar_mul(step_size, GENERATOR))
         IN  GiantLoop(0, point, giant_step, baby_steps, step_size, max_value)

solve_dlog(point, max_value) ==
    IF point = NoPoint THEN Raise("ValueError")
    ELSE IF point_eq(point, IDENTITY) THEN Ok(0)
    ELSE LET step_size == StepSize(max_value)
             baby_steps == BabyLoop(0, IDENTITY, step_size)
             giant_step == point_neg(scalar_mul(step_size, GENERATOR))
         IN  GiantLoop(0, point, giant_step, baby_steps, step_size, max_value)

decrypt(ciphertext, sk, max_value) ==
    solve_dlog(decrypt_to_point(ciphertext, sk), max_value)

(* the for loop of homomorphic_add over ciphertexts[1:] *)
RECURSIVE AddLoop(_, _)
AddLoop(result, rest) ==
    IF Len(rest) = 0 THEN result
    ELSE AddLoop(ElGamalCiphertext(point_add(result.c1, rest[1].c1),
                                   point_add(result.c2, rest[1].c2)),
                 Tail(rest))

(* mutant: the loop runs over the whole list, adding the first element twice *)
homomorphic_add_first_twice(ciphertexts) ==
    IF Len(ciphertexts) = 0 THEN Raise("ValueError")
    ELSE Ok(AddLoop(ciphertexts[1], ciphertexts))

homomorphic_add(ciphertexts) ==
    IF Len(ciphertexts) = 0 THEN Raise("ValueError")
    ELSE LET sum == AddLoop(ciphertexts[1], Tail(ciphertexts))
         IN  IF sum.c1 = NoPoint \/ sum.c2 = NoPoint THEN Raise("ValueError")
             ELSE Ok(sum)

(* mutants: the chosen position counted from 1; no check of the length of *)
(* the randomness list                                                     *)
encrypt_vote_onehot_shifted(candidate_id, num_candidates, pk, randomness_list) ==
    IF candidate_id < 0 \/ candidate_id >= num_candidates THEN Raise("ValueError")
    ELSE IF Len(randomness_list) # num_candidates THEN Raise("ValueError")
    ELSE Ok([i \in 1..num_candidates |->
                encrypt(IF i = candidate_id THEN 1 ELSE 0, pk, randomness_list[i])])

encrypt_vote_onehot_unchecked(candidate_id, num_candidates, pk, randomness_list) ==
    IF candidate_id < 0 \/ candidate_id >= num_candidates THEN Raise("ValueError")
    ELSE IF Len(randomness_list) < num_candidates THEN Raise("IndexError")
    ELSE Ok([i \in 1..num_candidates |->
                encrypt(IF i - 1 = candidate_id THEN 1 ELSE 0, pk,
                        randomness_list[i])])

(* encrypt_vote_onehot once randomness_list is not None: the list is the   *)
(* caller's, or num_candidates values drawn from [1, n-1]                  *)
encrypt_vote_onehot(candidate_id, num_candidates, pk, randomness_list) ==
    IF candidate_id < 0 \/ candidate_id >= num_candidates THEN Raise("ValueError")
    ELSE IF Len(randomness_list) # num_candidates THEN Raise("ValueError")
    ELSE Ok([i \in 1..num_candidates |->
                encrypt(IF i - 1 = candidate_id THEN 1 ELSE 0, pk,
                        randomness_list[i])])

(* the two loops of homomorphic_tally: aggregate every column, then        *)
(* decrypt every aggregate; the first exception ends the call              *)
(* mutant: every column reads position 0 of the ballots *)
ColumnZero(all_votes, j) == [v \in 1..Len(all_votes) |-> At(all_votes[v], 0)]

Column(all_votes, j) == [v \in 1..Len(all_votes) |-> At(all_votes[v], j)]

(* mutant: no early return on an empty list of ballots *)
homomorphic_tally_no_early_return(all_votes, num_candidates, sk, max_votes) ==
    LET aggregated == [j \in 1..num_candidates |->
                          homomorphic_add(Column(all_votes, j - 1))]
        counts == [j \in 1..num_candidates |->
                      IF aggregated[j].raised # "" THEN aggregated[j]
                      ELSE decrypt(aggregated[j].value, sk, max_votes)]
    IN  IF \E j \in 1..num_candidates : counts[j].raised # ""
        THEN Raise("ValueError")
        ELSE Ok([j \in 1..num_candidates |-> counts[j].value])

homomorphic_tally(all_votes, num_candidates, sk, max_votes) ==
    IF Len(all_votes) = 0 THEN Ok([j \in 1..num_candidates |-> 0])
    ELSE IF \E j \in 0..(num_candidates - 1) :
               \E v \in 1..Len(all_votes) : j >= Len(all_votes[v])
         THEN Raise("IndexError")
    ELSE LET aggregated == [j \in 1..num_candidates |->
                               homomorphic_add(Column(all_votes, j - 1))]
             counts == [j \in 1..num_candidates |->
                           IF aggregated[j].raised # "" THEN aggregated[j]
                           ELSE decrypt(aggregated[j].value, sk, max_votes)]
         IN  IF \E j \in 1..num_candidates : counts[j].raised # ""
             THEN Raise("ValueError")
             ELSE Ok([j \in 1..num_candidates |-> counts[j].value])

----------------------------------------------------------------------------
(* The inputs of the Merkle specification *)

LeafData == {<<Atom(1)>>, <<Atom(2)>>}

RECURSIVE ListsUpTo(_, _)
ListsUpTo(S, n) ==
    IF n = 0 THEN {<<>>}
    ELSE LET shorter == ListsUpTo(S, n - 1)
         IN  shorter \cup {Append(l, x) : l \in {s \in shorter : Len(s) = n - 1}, x \in S}

(* every digest stored in the tree *)
TreeNodes(t) == UNION {{t[l][j] : j \in 1..Len(t[l])} : l \in 1..Len(t)}

(* byte strings a caller may present instead of the leaf: other raw        *)
(* values and 64-byte strings made of two digests                          *)
ForgedLeaves(t) == LeafData \cup {x \o y : x, y \in TreeNodes(t)}

(* 32-byte digests a corrupted proof entry may carry *)
ForgedDigests(t) == TreeNodes(t) \cup {SHA256(<<Atom(0)>>)}

DirectionTags == {"L", "R", "X"}

----------------------------------------------------------------------------
(* SpecMerkle: one MerkleTree object and its callers *)

MerkleInit ==
    /\ MerkleIdle
    /\ ServiceIdle
    /\ ElGamalIdle
    /\ PoolIdle
    /\ ret = [op |-> "init"]

(* mutant: the tree is emptied before the empty list is rejected *)
MBuildResetsFirst(dl) ==
    /\ leaves' = BuildLeaves(dl)
    /\ tree' = IF Len(dl) = 0 THEN <<>> ELSE BuildTree(dl)
    /\ data_list' = dl
    /\ ret' = [op |-> "build", data |-> dl,
               out |-> IF Len(dl) = 0 THEN Raise("ValueError")
                       ELSE Ok(get_root(BuildTree(dl)))]
    /\ UNCHANGED <<service_vars, elgamal_vars, pool_vars>>

(* tree.build(dl) *)
MBuild(dl) ==
    IF Len(dl) = 0
    THEN /\ ret' = [op |-> "build", data |-> dl, out |-> Raise("ValueError")]
         /\ UNCHANGED <<merkle_vars, service_vars, elgamal_vars, pool_vars>>
    ELSE /\ leaves' = BuildLeaves(dl)
         /\ tree' = BuildTree(dl)
         /\ data_list' = dl
         /\ ret' = [op |-> "build", data |-> dl, out |-> Ok(get_root(BuildTree(dl)))]
         /\ UNCHANGED <<service_vars, elgamal_vars, pool_vars>>

(* tree.verify_proof(data[i], tree.get_proof(i), tree.get_root()) *)
MVerifyGenuine(i) ==
    /\ get_proof(leaves, tree, i).raised = ""
    /\ ret' = [op |-> "verify_proof", how |-> "genuine", index |-> i,
               leaf |-> At(data_list, i),
               proof |-> get_proof(leaves, tree, i).value,
               out |-> verify_proof(At(data_list, i),
                                    get_proof(leaves, tree, i).value,
                                    get_root(tree))]
    /\ UNCHANGED <<merkle_vars, service_vars, elgamal_vars, pool_vars>>

(* the leaf bytes replaced by different bytes, the proof unchanged *)
MVerifyForgedLeaf(i, x) ==
    /\ get_proof(leaves, tree, i).raised = ""
    /\ x # At(data_list, i)
    /\ ret' = [op |-> "verify_proof", how |-> "leaf", index |-> i,
               leaf |-> x,
               proof |-> get_proof(leaves, tree, i).value,
               out |-> verify_proof(x, get_proof(leaves, tree, i).value,
                                    get_root(tree))]
    /\ UNCHANGED <<merkle_vars, service_vars, elgamal_vars, pool_vars>>

(* entry j of the proof carries a different sibling digest *)
MVerifyForgedSibling(i, j, s) ==
    /\ get_proof(leaves, tree, i).raised = ""
    /\ LET proof == get_proof(leaves, tree, i).value
       IN  /\ j \in 1..Len(proof)
           /\ s # proof[j].sibling
           /\ LET forged == [proof EXCEPT ![j].sibling = s]
              IN  ret' = [op |-> "verify_proof", how |-> "sibling", index |-> i,
                          leaf |-> At(data_list, i), proof |-> forged,
                          out |-> verify_proof(At(data_list, i), forged,
                                               get_root(tree))]
    /\ UNCHANGED <<merkle_vars, service_vars, elgamal_vars, pool_vars>>

(* entry j of the proof carries a different direction tag *)
MVerifyForgedDirection(i, j, d) ==
    /\ get_proof(leaves, tree, i).raised = ""
    /\ LET proof == get_proof(leaves, tree, i).value
       IN  /\ j \in 1..Len(proof)
           /\ d # proof[j].direction
           /\ LET forged == [proof EXCEPT ![j].direction = d]
              IN  ret' = [op |-> "verify_proof", how |-> "direction", index |-> i,
                          leaf |-> At(data_list, i), proof |-> forged,
                          out |-> verify_proof(At(data_list, i), forged,
                                               get_root(tree))]
    /\ UNCHANGED <<merkle_vars, service_vars, elgamal_vars, pool_vars>>

MerkleNext ==
    \/ \E dl \in ListsUpTo(LeafData, MaxLeaves) : MBuild(dl)
    \/ \E i \in 0..(MaxLeaves - 1) : MVerifyGenuine(i)
    \/ \E i \in 0..(MaxLeaves - 1) : \E x \in ForgedLeaves(tree) : MVerifyForgedLeaf(i, x)
    \/ \E i \in 0..(MaxLeaves - 1) : \E j \in 1..MaxLeaves :
          \E s \in ForgedDigests(tree) : MVerifyForgedSibling(i, j, s)
    \/ \E i \in 0..(MaxLeaves - 1) : \E j \in 1..MaxLeaves :
          \E d \in DirectionTags : MVerifyForgedDirection(i, j, d)

SpecMerkle == MerkleInit /\ [][MerkleNext]_vars

(* SpecMerkleSound: verify_proof called with any byte string and any proof *)
(* a caller can assemble from the tree: a raw value or two digests side by *)
(* side, and a tail of a proof the tree has issued                         *)

MaxForgedLeaves == 3  \* longest list handed to MerkleTree.build here

(* MerkleTree.verify_proof(x, proof, tree.get_root()), the proof being    *)
(* get_proof(i) without its first k entries                                *)
MVerifyAny(x, i, k) ==
    /\ get_root(tree) # None
    /\ get_proof(leaves, tree, i).raised = ""
    /\ LET issued == get_proof(leaves, tree, i).value
           proof == SubSeq(issued, k + 1, Len(issued))
       IN  ret' = [op |-> "verify_proof", how |-> "any", leaf |-> x,
                   proof |-> proof,
                   out |-> verify_proof(x, proof, get_root(tree))]
    /\ UNCHANGED <<merkle_vars, service_vars, elgamal_vars, pool_vars>>

MerkleSoundNext ==
    \/ \E dl \in ListsUpTo(LeafData, MaxForgedLeaves) : MBuild(dl)
    \/ \E x \in ForgedLeaves(tree) : \E i \in 0..(MaxForgedLeaves - 1) :
          \E k \in 0..MaxForgedLeaves : MVerifyAny(x, i, k)

SpecMerkleSound == MerkleInit /\ [][MerkleSoundNext]_vars

(* SpecMerkleBuild: builds of longer lists and the proofs of their leaves *)

MaxBuildLeaves == 6   \* longest list handed to MerkleTree.build here

(* tree.get_proof(i) *)
MGetProof(i) ==
    /\ ret' = [op |-> "get_proof", index |-> i, out |-> get_proof(leaves, tree, i)]
    /\ UNCHANGED <<merkle_vars, service_vars, elgamal_vars, pool_vars>>

MerkleBuildNext ==
    \/ \E dl \in ListsUpTo(LeafData, MaxBuildLeaves) : MBuild(dl)
    \/ \E i \in (-1)..MaxBuildLeaves : MGetProof(i)

SpecMerkleBuild == MerkleInit /\ [][MerkleBuildNext]_vars

----------------------------------------------------------------------------
(* SpecElGamal: one call of a function of crypto/elgamal.py on arguments   *)
(* drawn at the start.  The key pair is from_sk(sk).                       *)

Randomness == {0, 1, 2, SUBGROUP_ORDER - 1, SUBGROUP_ORDER + 3}

SecretKeys == 1..(SUBGROUP_ORDER - 1)

TallyKeys == {1, 14}

(* a plaintext and the search bound of solve_dlog *)
DlogInputs ==
    {[kind |-> "dlog", m |-> m, max_value |-> mv] :
        m \in 0..(SUBGROUP_ORDER - 1), mv \in 0..MaxBound}

(* one message, its randomness and the search bound of decrypt *)
MessageInputs ==
    {[kind |-> "message", m |-> m, r |-> r, max_value |-> mv] :
        m \in 0..MaxMessage, r \in Randomness, mv \in 0..MaxMessage}

Addends == {[m |-> m, r |-> r] : m \in 0..MaxAddend, r \in {1, 5}}

(* a non-empty list of messages to encrypt and add, and the search bound *)
AddendInputs ==
    {[kind |-> "addends", addends |-> l, max_value |-> mv] :
        l \in ListsUpTo(Addends, MaxAddends) \ {<<>>},
        mv \in 0..(MaxAddends * MaxAddend)}

(* the randomness lists a voter hands to encrypt_vote_onehot *)
RandomnessLists(k) == {[i \in 1..k |-> r0 + i] : r0 \in {0, 6}}

BallotsOf(k) == {[cid |-> c, rs |-> rs] : c \in 0..(k - 1), rs \in RandomnessLists(k)}

(* S1 of the specification: ten ballots for three candidates *)
ScenarioS1 ==
    [kind |-> "ballots", k |-> 3,
     ballots |-> [i \in 1..10 |->
                     [cid |-> <<0, 1, 0, 2, 0, 1, 0, 2, 1, 0>>[i],
                      rs |-> <<i, i + 1, i + 2>>]],
     max_votes |-> 100]

(* the ballots of an election of k candidates, and the search bound *)
BallotInputs ==
    {[kind |-> "ballots", k |-> k, ballots |-> l, max_votes |-> mv] :
        k \in {MaxCandidates}, l \in ListsUpTo(BallotsOf(MaxCandidates), MaxBallots),
        mv \in 0..MaxVotes}
    \cup {[kind |-> "ballots", k |-> MaxCandidates - 1, ballots |-> l, max_votes |-> mv] :
        l \in ListsUpTo(BallotsOf(MaxCandidates - 1), MaxBallots), mv \in 0..MaxVotes}
    \cup {ScenarioS1}

(* the values secrets.randbelow(SUBGROUP_ORDER - 1) + 1 draws from *)
GeneratedRandomness == {1, SUBGROUP_ORDER - 1}

(* one call of encrypt_vote_onehot; randomness_list <<>> is None, <<rs>>   *)
(* is the list rs                                                          *)
OneHotInputs ==
    {[kind |-> "onehot", candidate_id |-> c, num_candidates |-> k,
      randomness_list |-> rs] :
        c \in (-1)..(MaxCandidates + 1), k \in 0..(MaxCandidates + 1),
        rs \in {<<>>} \cup {<<l>> : l \in UNION {RandomnessLists(len) :
                                           len \in 0..(MaxCandidates + 2)}}}

(* one message encrypted under two caller-supplied randomness values *)
RandomnessPairs ==
    {[kind |-> "randomness", m |-> m, r1 |-> r1, r2 |-> r2] :
        m \in 0..1, r1 \in 0..(SUBGROUP_ORDER + 3), r2 \in 0..(SUBGROUP_ORDER + 3)}

(* the ways an ElGamalKeyPair is made: generate(), from_sk(sk) for an      *)
(* integer sk, from_dict(data) for a dictionary of decimal strings         *)
KeyInputs ==
    {[kind |-> "key", how |-> "generate"]}
    \cup {[kind |-> "key", how |-> "from_sk", sk |-> sk] :
             sk \in (-2)..(SUBGROUP_ORDER + 2)}
    \cup {[kind |-> "key", how |-> "from_dict",
           data |-> [sk |-> sk, pk |-> <<x, y>>]] :
             sk \in {str(0), str(5)},
             x \in {str(0), str(1), str(7), [sign |-> "", digits |-> <<1, 10>>]},
             y \in {str(-1), str(1), str(2), str(60)}}

(* three points a * G, b * G, c * G of the subgroup generated by G *)
PointInputs ==
    {[kind |-> "points", a |-> a, b |-> b, c |-> c] :
        a \in 0..(SUBGROUP_ORDER - 1), b \in 0..(SUBGROUP_ORDER - 1),
        c \in 0..(SUBGROUP_ORDER - 1)}

ElGamalInit ==
    /\ MerkleIdle
    /\ ServiceIdle
    /\ PoolIdle
    /\ \/ /\ kp \in {from_sk(sk) : sk \in SecretKeys}
          /\ inp \in MessageInputs
       \/ /\ kp = NoKey
          /\ inp \in DlogInputs \cup KeyInputs \cup PointInputs
       \/ /\ kp \in {from_sk(sk) : sk \in TallyKeys}
          /\ inp \in AddendInputs \cup BallotInputs \cup OneHotInputs
                        \cup RandomnessPairs
    /\ ret = [op |-> "init"]

(* the ballots of the drawn input, each encrypted by encrypt_vote_onehot *)
CastAll(ballots, k, pk) ==
    [i \in 1..Len(ballots) |->
        encrypt_vote_onehot(ballots[i].cid, k, pk, ballots[i].rs).value]

(* the number of ballots for candidate j (0-based) *)
RECURSIVE CountFor(_, _)
CountFor(ballots, j) ==
    IF Len(ballots) = 0 THEN 0
    ELSE (IF ballots[1].cid = j THEN 1 ELSE 0) + CountFor(Tail(ballots), j)

RECURSIVE SumOf(_)
SumOf(l) == IF Len(l) = 0 THEN 0 ELSE l[1] + SumOf(Tail(l))

(* decrypt(encrypt(m, pk, r), sk, max_value) and decrypt_to_point of it *)
EDecrypt ==
    /\ inp.kind = "message"
    /\ ret.op = "init"
    /\ LET ct == encrypt(inp.m, kp.pk, inp.r)
       IN  ret' = [op |-> "decrypt", ct |-> ct,
                   point |-> decrypt_to_point(ct, kp.sk),
                   out |-> decrypt(ct, kp.sk, inp.max_value)]
    /\ UNCHANGED <<merkle_vars, service_vars, elgamal_vars, pool_vars>>

(* solve_dlog(m * G, max_value) *)
ESolveDlog ==
    /\ inp.kind = "dlog"
    /\ ret.op = "init"
    /\ ret' = [op |-> "solve_dlog",
               out |-> solve_dlog(scalar_mul(inp.m, GENERATOR), inp.max_value),
               trace |-> solve_dlog_trace(scalar_mul(inp.m, GENERATOR),
                                          inp.max_value)]
    /\ UNCHANGED <<merkle_vars, service_vars, elgamal_vars, pool_vars>>

(* decrypt(homomorphic_add([encrypt(a_i, pk, r_i) ...]), sk, max_value) *)
EHomomorphicAdd ==
    /\ inp.kind = "addends"
    /\ ret.op = "init"
    /\ LET cts == [i \in 1..Len(inp.addends) |->
                      encrypt(inp.addends[i].m, kp.pk, inp.addends[i].r)]
           sum == homomorphic_add(cts)
       IN  ret' = [op |-> "homomorphic_add", cts |-> cts,
                   out |-> IF sum.raised # "" THEN sum
                           ELSE decrypt(sum.value, kp.sk, inp.max_value)]
    /\ UNCHANGED <<merkle_vars, service_vars, elgamal_vars, pool_vars>>

(* homomorphic_tally of the ballots encrypt_vote_onehot produced *)
ETally ==
    /\ inp.kind = "ballots"
    /\ ret.op = "init"
    /\ ret' = [op |-> "homomorphic_tally",
               out |-> homomorphic_tally(CastAll(inp.ballots, inp.k, kp.pk),
                                         inp.k, kp.sk, inp.max_votes)]
    /\ UNCHANGED <<merkle_vars, service_vars, elgamal_vars, pool_vars>>

(* encrypt_vote_onehot(candidate_id, num_candidates, pk, randomness_list),  *)
(* each ciphertext of the result decrypted, and the call run again with    *)
(* the randomness list it used                                             *)
EOneHot(generated) ==
    /\ inp.kind = "onehot"
    /\ ret.op = "init"
    /\ IF inp.randomness_list = <<>> THEN Len(generated) = inp.num_candidates
       ELSE generated = inp.randomness_list[1]
    /\ LET out == encrypt_vote_onehot(inp.candidate_id, inp.num_candidates,
                                      kp.pk, generated)
       IN  ret' = [op |-> "encrypt_vote_onehot", randomness_list |-> generated,
                   out |-> out,
                   decrypted |-> IF out.raised # "" THEN <<>>
                                 ELSE [i \in 1..Len(out.value) |->
                                          decrypt(out.value[i], kp.sk, 1)],
                   rerun |-> encrypt_vote_onehot(inp.candidate_id,
                                 inp.num_candidates, kp.pk, generated)]
    /\ UNCHANGED <<merkle_vars, service_vars, elgamal_vars, pool_vars>>

(* point_add, point_neg and scalar_mul on the three points drawn *)
EPointAdd ==
    /\ inp.kind = "points"
    /\ ret.op = "init"
    /\ LET P == scalar_mul(inp.a, GENERATOR)
           Q == scalar_mul(inp.b, GENERATOR)
           R == scalar_mul(inp.c, GENERATOR)
       IN  ret' = [op |-> "point_add", P |-> P, Q |-> Q, R |-> R,
                   PQ |-> point_add(P, Q), QP |-> point_add(Q, P),
                   PQ_R |-> point_add(point_add(P, Q), R),
                   P_QR |-> point_add(P, point_add(Q, R)),
                   P_0 |-> point_add(P, IDENTITY),
                   P_negP |-> point_add(P, point_neg(P)),
                   nG |-> scalar_mul(SUBGROUP_ORDER, GENERATOR)]
    /\ UNCHANGED <<merkle_vars, service_vars, elgamal_vars, pool_vars>>

(* ElGamalKeyPair.generate(), sk being the value drawn *)
EGenerate(sk) ==
    /\ inp.kind = "key" /\ inp.how = "generate"
    /\ ret.op = "init"
    /\ kp' = [sk |-> sk, pk |-> scalar_mul(sk, GENERATOR)]
    /\ ret' = [op |-> "generate"]
    /\ UNCHANGED <<merkle_vars, service_vars, inp, pool_vars>>

(* ElGamalKeyPair.from_sk(sk) *)
EFromSk ==
    /\ inp.kind = "key" /\ inp.how = "from_sk"
    /\ ret.op = "init"
    /\ kp' = from_sk(inp.sk)
    /\ ret' = [op |-> "from_sk"]
    /\ UNCHANGED <<merkle_vars, service_vars, inp, pool_vars>>

(* ElGamalKeyPair.from_dict(data) *)
EFromDict ==
    /\ inp.kind = "key" /\ inp.how = "from_dict"
    /\ ret.op = "init"
    /\ LET out == from_dict(inp.data)
       IN  /\ kp' = IF out.raised = "" THEN out.value ELSE kp
           /\ ret' = [op |-> "from_dict", how |-> "given", before |-> kp,
                      raised |-> out.raised]
    /\ UNCHANGED <<merkle_vars, service_vars, inp, pool_vars>>

(* ElGamalKeyPair.from_dict(kp.to_dict()) of a key pair made before *)
EToFromDict ==
    /\ ret.op \in {"generate", "from_sk"}
    /\ LET out == from_dict(to_dict(kp))
       IN  /\ kp' = IF out.raised = "" THEN out.value ELSE kp
           /\ ret' = [op |-> "from_dict", how |-> "to_dict", before |-> kp,
                      raised |-> out.raised]
    /\ UNCHANGED <<merkle_vars, service_vars, inp, pool_vars>>

(* encrypt(m, pk, r1), encrypt(m, pk, r2), and encrypt(m, pk, r1) again *)
EEncryptTwice ==
    /\ inp.kind = "randomness"
    /\ ret.op = "init"
    /\ ret' = [op |-> "encrypt",
               ct1 |-> encrypt(inp.m, kp.pk, inp.r1),
               ct2 |-> encrypt(inp.m, kp.pk, inp.r2),
               rerun |-> encrypt(inp.m, kp.pk, inp.r1)]
    /\ UNCHANGED <<merkle_vars, service_vars, elgamal_vars, pool_vars>>

ElGamalNext ==
    \/ EPointAdd
    \/ \E sk \in 1..(SUBGROUP_ORDER - 1) : EGenerate(sk)
    \/ EFromSk
    \/ EFromDict
    \/ EToFromDict
    \/ EEncryptTwice
    \/ EDecrypt
    \/ ESolveDlog
    \/ EHomomorphicAdd
    \/ ETally
    \/ \E generated \in ListsUpTo(GeneratedRandomness, MaxCandidates + 1)
                          \cup UNION {RandomnessLists(len) :
                                         len \in 0..(MaxCandidates + 2)} :
          EOneHot(generated)

SpecElGamal == ElGamalInit /\ [][ElGamalNext]_vars

----------------------------------------------------------------------------
(* backend/services/voting.py: VotingService, whose merkle_tree is the     *)
(* MerkleTree of leaves and tree                                           *)

(* A hex string: the bytes it spells, or no bytes when it is not hex *)
ToHex(bytes) == [valid |-> TRUE, digits |-> bytes]
NotHex == [valid |-> FALSE, digits |-> <<>>]

(* bytes.fromhex *)
fromhex(hex) == IF hex.valid THEN Ok(hex.digits) ELSE Raise("ValueError")

get_root_hex(t) == IF get_root(t) # None THEN ToHex(get_root(t)) ELSE None

get_proof_hex(lv, t, index) ==
    LET proof == get_proof(lv, t, index)
    IN  IF proof.raised # "" THEN proof
        ELSE Ok([i \in 1..Len(proof.value) |->
                    [sibling |-> ToHex(proof.value[i].sibling),
                     direction |-> proof.value[i].direction]])

----------------------------------------------------------------------------
(* Spec: the voting engine.  One VotingService takes commitments and       *)
(* builds the tree; the ballots are recorded beside it and tallied with    *)
(* the ElGamal homomorphic_tally.                                          *)

MaxCommitments == 3   \* most commitments submitted

(* the 32-byte commitments voters submit *)
CommitmentValues == {SHA256(<<Atom(1)>>), SHA256(<<Atom(2)>>)}

SubmittedHex == {ToHex(c) : c \in CommitmentValues} \cup {NotHex}

Init ==
    /\ MerkleIdle
    /\ ServiceIdle
    /\ kp = from_sk(14)
    /\ inp = NoInput
    /\ PoolIdle
    /\ ret = [op |-> "init"]

(* mutant: the length of the list after the append returned as the index *)
AddCommitmentReturnsLength(commitment_hex) ==
    /\ Len(commitments) < MaxCommitments
    /\ LET commitment == fromhex(commitment_hex)
       IN  IF commitment.raised # ""
           THEN /\ ret' = [op |-> "add_commitment", sealed |-> get_root(tree) # None,
                           out |-> commitment]
                /\ UNCHANGED commitments
           ELSE /\ commitments' = Append(commitments, commitment.value)
                /\ ret' = [op |-> "add_commitment", sealed |-> get_root(tree) # None,
                           out |-> Ok(Len(commitments) + 1)]
    /\ UNCHANGED <<merkle_vars, encrypted_votes, verify_service, elgamal_vars,
                   pool_vars>>

(* VotingService.add_commitment(commitment_hex) *)
AddCommitment(commitment_hex) ==
    /\ Len(commitments) < MaxCommitments
    /\ LET commitment == fromhex(commitment_hex)
       IN  IF commitment.raised # ""
           THEN /\ ret' = [op |-> "add_commitment", sealed |-> get_root(tree) # None,
                           out |-> commitment]
                /\ UNCHANGED commitments
           ELSE /\ commitments' = Append(commitments, commitment.value)
                /\ ret' = [op |-> "add_commitment", sealed |-> get_root(tree) # None,
                           out |-> Ok(Len(commitments) + 1 - 1)]
    /\ UNCHANGED <<merkle_vars, encrypted_votes, verify_service, elgamal_vars,
                   pool_vars>>

(* VotingService.build_merkle_tree() *)
BuildMerkleTree ==
    /\ IF Len(commitments) = 0
       THEN /\ ret' = [op |-> "build_merkle_tree", out |-> Ok(None)]
            /\ UNCHANGED merkle_vars
       ELSE /\ leaves' = BuildLeaves(commitments)
            /\ tree' = BuildTree(commitments)
            /\ data_list' = commitments
            /\ ret' = [op |-> "build_merkle_tree",
                       out |-> Ok(get_root_hex(BuildTree(commitments)))]
    /\ UNCHANGED <<service_vars, elgamal_vars, pool_vars>>

(* VotingService.get_merkle_proof(index) *)
GetMerkleProof(index) ==
    /\ ret' = [op |-> "get_merkle_proof", index |-> index,
               out |-> get_proof_hex(leaves, tree, index)]
    /\ UNCHANGED <<merkle_vars, service_vars, elgamal_vars, pool_vars>>

(* a ballot is encrypted and recorded *)
RecordBallot(candidate_id) ==
    /\ Len(encrypted_votes) < MaxBallots
    /\ LET vote == encrypt_vote_onehot(candidate_id, MaxCandidates, kp.pk,
                                       [i \in 1..MaxCandidates |-> i])
       IN  /\ vote.raised = ""
           /\ encrypted_votes' = Append(encrypted_votes, vote.value)
           /\ ret' = [op |-> "record_ballot", candidate_id |-> candidate_id]
    /\ UNCHANGED <<merkle_vars, commitments, verify_service, elgamal_vars,
                   pool_vars>>

(* the tally request: homomorphic_tally over the recorded ballots *)
Tally(max_votes) ==
    /\ ret' = [op |-> "homomorphic_tally", sealed |-> get_root(tree) # None,
               out |-> homomorphic_tally(encrypted_votes, MaxCandidates, kp.sk,
                                         max_votes)]
    /\ UNCHANGED <<merkle_vars, service_vars, elgamal_vars, pool_vars>>

Next ==
    \/ \E h \in SubmittedHex : AddCommitment(h)
    \/ BuildMerkleTree
    \/ \E index \in (-1)..MaxCommitments : GetMerkleProof(index)
    \/ \E c \in 0..(MaxCandidates - 1) : RecordBallot(c)
    \/ \E mv \in 0..MaxVotes : Tally(mv)

Spec == Init /\ [][Next]_vars

(* backend/api: the submit and build routes of api/voting.py call          *)
(* add_commitment and build_merkle_tree on the VotingService of that       *)
(* module (commitments, leaves, tree).  The proof route of api/verify.py   *)
(* calls get_merkle_proof on the VotingService of its own module           *)
(* (verify_service), on which no route calls add_commitment or             *)
(* build_merkle_tree; an IndexError becomes the HTTPException 404.         *)
VerifyGetMerkleProof(index) ==
    /\ LET proof == get_proof_hex(verify_service.leaves, verify_service.tree, index)
       IN  ret' = [op |-> "verify.get_merkle_proof", index |-> index,
                   out |-> IF proof.raised = "IndexError"
                           THEN Raise("HTTPException") ELSE proof]
    /\ UNCHANGED <<merkle_vars, service_vars, elgamal_vars, pool_vars>>

(* SpecService: the VotingService alone, and the proof route *)

ServiceNext ==
    \/ \E h \in SubmittedHex : AddCommitment(h)
    \/ BuildMerkleTree
    \/ \E index \in (-1)..MaxCommitments : GetMerkleProof(index)
    \/ \E index \in (-1)..MaxCommitments : VerifyGetMerkleProof(index)

SpecService == Init /\ [][ServiceNext]_vars

----------------------------------------------------------------------------
(* crypto/paillier.py.  The phe library is modelled by its arithmetic:     *)
(* g = n + 1, a ciphertext of m is (1 + n * m) * r^n mod n^2, addition is  *)
(* multiplication mod n^2, decryption is by the Chinese remainder theorem  *)
(* over p and q, and integers beyond max_int = n // 3 - 1 are rejected or  *)
(* reported as an overflow.  The primes are small.                         *)

PAILLIER_P == 5
PAILLIER_Q == 7

RECURSIVE powmod(_, _, _)
powmod(a, b, c) == IF b = 0 THEN 1 % c ELSE (a * powmod(a, b - 1, c)) % c

invert(a, m) == _extended_gcd(a % m, m)[2] % m

PaillierPublicKey(n) == [n |-> n]

PaillierPrivateKey(p, q) == [p |-> p, q |-> q]

(* a private key of None *)
NoPrivateKey == [p |-> 0, q |-> 0]

generate_keypair == [public_key |-> PaillierPublicKey(PAILLIER_P * PAILLIER_Q),
                     private_key |-> PaillierPrivateKey(PAILLIER_P, PAILLIER_Q)]

max_int(public_key) == public_key.n \div 3 - 1

raw_encrypt(public_key, plaintext, r) ==
    LET n == public_key.n
        nsquare == n * n
        nude == IF n - max_int(public_key) <= plaintext /\ plaintext < n
                THEN invert((n * (n - plaintext) + 1) % nsquare, nsquare)
                ELSE (n * plaintext + 1) % nsquare
    IN  (nude * powmod(r, n, nsquare)) % nsquare

(* public_key.encrypt(value) with the obfuscator r *)
public_key_encrypt(public_key, value, r) ==
    IF value > max_int(public_key) \/ value < -max_int(public_key)
    THEN Raise("ValueError")
    ELSE Ok([public_key |-> public_key,
             ciphertext |-> raw_encrypt(public_key, value % public_key.n, r),
             exponent |-> 0])

(* EncryptedNumber.__add__ *)
encrypted_add(a, b) ==
    IF a.public_key # b.public_key THEN Raise("ValueError")
    ELSE Ok([public_key |-> a.public_key,
             ciphertext |-> (a.ciphertext * b.ciphertext)
                               % (a.public_key.n * a.public_key.n),
             exponent |-> 0])

l_function(x, p) == (x - 1) \div p

h_function(x, xsquare, g) == invert(l_function(powmod(g, x - 1, xsquare), x), x)

raw_decrypt(private_key, n, ciphertext) ==
    LET p == private_key.p
        q == private_key.q
        g == n + 1
        mp == (l_function(powmod(ciphertext, p - 1, p * p), p)
                  * h_function(p, p * p, g)) % p
        mq == (l_function(powmod(ciphertext, q - 1, q * q), q)
                  * h_function(q, q * q, g)) % q
        u == ((mq - mp) * invert(p, q)) % q
    IN  mp + u * p

(* private_key.decrypt(encrypted_number) *)
private_key_decrypt(private_key, encrypted_number) ==
    LET n == private_key.p * private_key.q
        encoding == raw_decrypt(private_key, n, encrypted_number.ciphertext)
    IN  IF encrypted_number.public_key.n # n THEN Raise("ValueError")
        ELSE IF encoding <= n \div 3 - 1 THEN Ok(encoding)
        ELSE IF encoding >= n - (n \div 3 - 1) THEN Ok(encoding - n)
        ELSE Raise("OverflowError")

(* the for loop of add_encrypted over encrypted_values[1:] *)
RECURSIVE AddEncryptedLoop(_, _)
AddEncryptedLoop(result, rest) ==
    IF Len(rest) = 0 \/ result.raised # "" THEN result
    ELSE AddEncryptedLoop(encrypted_add(result.value, rest[1]), Tail(rest))

add_encrypted(encrypted_values) ==
    IF Len(encrypted_values) = 0 THEN Raise("ValueError")
    ELSE AddEncryptedLoop(Ok(encrypted_values[1]), Tail(encrypted_values))

(* PaillierCrypto.encrypt_vote_onehot, the obfuscators of the k            *)
(* encryptions given as rs                                                 *)
PaillierCrypto_encrypt_vote_onehot(self, candidate_id, num_candidates, rs) ==
    IF self.public_key.n = 0 THEN Raise("ValueError")
    ELSE IF candidate_id < 0 \/ candidate_id >= num_candidates THEN Raise("ValueError")
    ELSE IF num_candidates < 2 THEN Raise("ValueError")
    ELSE Ok([i \in 1..num_candidates |->
                public_key_encrypt(self.public_key,
                                   IF i - 1 = candidate_id THEN 1 ELSE 0,
                                   rs[i]).value])

(* sum_candidate, and the body of the first loop of homomorphic_tally *)
sum_candidate(encrypted_votes_, candidate_idx) ==
    IF \E v \in 1..Len(encrypted_votes_) : candidate_idx >= Len(encrypted_votes_[v])
    THEN Raise("IndexError")
    ELSE add_encrypted([v \in 1..Len(encrypted_votes_) |->
                           At(encrypted_votes_[v], candidate_idx)])

(* the first exception of a list comprehension or loop, or no exception *)
FirstRaised(results) ==
    IF \E i \in 1..Len(results) : results[i].raised # ""
    THEN results[CHOOSE i \in 1..Len(results) :
                    /\ results[i].raised # ""
                    /\ \A i2 \in 1..(i - 1) : results[i2].raised = ""]
    ELSE NoResult

(* results = [self.private_key.decrypt(t) for t in totals] *)
DecryptTotals(self, totals_) ==
    LET results == [j \in 1..Len(totals_) |->
                       private_key_decrypt(self.private_key, totals_[j])]
    IN  IF FirstRaised(results).raised # "" THEN FirstRaised(results)
        ELSE Ok([j \in 1..Len(totals_) |-> results[j].value])

PaillierCrypto_homomorphic_tally(self, encrypted_votes_, num_candidates) ==
    IF self.private_key = NoPrivateKey THEN Raise("ValueError")
    ELSE IF Len(encrypted_votes_) = 0 THEN Ok([j \in 1..num_candidates |-> 0])
    ELSE LET sums == [j \in 1..num_candidates |->
                         sum_candidate(encrypted_votes_, j - 1)]
         IN  IF FirstRaised(sums).raised # "" THEN FirstRaised(sums)
             ELSE DecryptTotals(self, [j \in 1..num_candidates |-> sums[j].value])

----------------------------------------------------------------------------
(* SpecPaillier: ballots are cast on one PaillierCrypto object, then the   *)
(* sequential tally and the parallel tally are called with the same        *)
(* num_candidates.  homomorphic_tally_parallel runs as the caller's thread *)
(* (pc) and the tasks of the ThreadPoolExecutor (futures).                 *)

PaillierObjects ==
    {generate_keypair, [generate_keypair EXCEPT !.private_key = NoPrivateKey]}

(* max_workers: <<>> is None, <<w>> is the integer w *)
TallyCalls ==
    {[kind |-> "tally", num_candidates |-> k, max_workers |-> mw] :
        k \in 0..(MaxCandidates + 1), mw \in {<<>>, <<0>>, <<1>>, <<2>>}}

(* obfuscators r of the encryptions of one ballot, each coprime with n *)
Obfuscators(k) == {[i \in 1..k |-> r0 + i] : r0 \in {0, 1}}

PaillierInit ==
    /\ MerkleIdle
    /\ ServiceIdle
    /\ kp = NoKey
    /\ inp \in TallyCalls
    /\ crypto \in PaillierObjects
    /\ pc = "idle"
    /\ futures = <<>>
    /\ totals = <<>>
    /\ par_out = NoResult
    /\ ret = [op |-> "init"]

(* crypto.encrypt_vote_onehot(candidate_id, MaxCandidates), recorded *)
PCastVote(candidate_id, rs) ==
    /\ pc = "idle"
    /\ ret.op \in {"init", "encrypt_vote_onehot"}
    /\ Len(encrypted_votes) < MaxBallots
    /\ LET vote == PaillierCrypto_encrypt_vote_onehot(crypto, candidate_id,
                                                      MaxCandidates, rs)
       IN  /\ encrypted_votes' = IF vote.raised = ""
                                 THEN Append(encrypted_votes, vote.value)
                                 ELSE encrypted_votes
           /\ ret' = [op |-> "encrypt_vote_onehot", candidate_id |-> candidate_id,
                      raised |-> vote.raised]
    /\ UNCHANGED <<merkle_vars, commitments, verify_service, elgamal_vars,
                   pool_vars>>

(* crypto.encrypt_vote_onehot(candidate_id, num_candidates) for any pair of *)
(* arguments, and each ciphertext of the result decrypted by the holder of *)
(* the private key                                                         *)
POneHot(candidate_id, num_candidates, rs) ==
    /\ pc = "idle"
    /\ ret.op = "init"
    /\ LET out == PaillierCrypto_encrypt_vote_onehot(crypto, candidate_id,
                                                     num_candidates, rs)
       IN  ret' = [op |-> "paillier_onehot", candidate_id |-> candidate_id,
                   num_candidates |-> num_candidates, out |-> out,
                   decrypted |-> IF out.raised # "" THEN <<>>
                                 ELSE [i \in 1..Len(out.value) |->
                                          private_key_decrypt(
                                              generate_keypair.private_key,
                                              out.value[i])]]
    /\ UNCHANGED <<merkle_vars, service_vars, elgamal_vars, pool_vars>>

(* crypto.homomorphic_tally(encrypted_votes, num_candidates) *)
PSequentialTally ==
    /\ pc \in {"idle", "done"}
    /\ ret.op # "homomorphic_tally"
    /\ ret' = [op |-> "homomorphic_tally",
               out |-> PaillierCrypto_homomorphic_tally(crypto, encrypted_votes,
                                                        inp.num_candidates)]
    /\ UNCHANGED <<merkle_vars, service_vars, elgamal_vars, pool_vars>>

(* the number of threads: max_workers, or num_candidates when it is None *)
MaxWorkers == IF inp.max_workers = <<>> THEN inp.num_candidates ELSE inp.max_workers[1]

(* crypto.homomorphic_tally_parallel(encrypted_votes, num_candidates,      *)
(* max_workers) up to executor.map, which submits one task per candidate   *)
PParallelCall ==
    /\ pc = "idle"
    /\ IF crypto.private_key = NoPrivateKey
       THEN pc' = "done" /\ par_out' = Raise("ValueError") /\ UNCHANGED futures
       ELSE IF Len(encrypted_votes) = 0
       THEN /\ pc' = "done"
            /\ par_out' = Ok([j \in 1..inp.num_candidates |-> 0])
            /\ UNCHANGED futures
       ELSE IF MaxWorkers <= 0
       THEN pc' = "done" /\ par_out' = Raise("ValueError") /\ UNCHANGED futures
       ELSE /\ pc' = "map"
            /\ futures' = [j \in 1..inp.num_candidates |->
                              [state |-> "pending", result |-> NoResult,
                               finished |-> 0]]
            /\ UNCHANGED par_out
    /\ UNCHANGED <<merkle_vars, service_vars, elgamal_vars, crypto, totals, ret>>

Running == {j \in 1..Len(futures) : futures[j].state = "running"}
Pending == {j \in 1..Len(futures) : futures[j].state = "pending"}
Done == {j \in 1..Len(futures) : futures[j].state = "done"}

(* a free worker thread takes the oldest pending task from the queue *)
PTaskStart ==
    /\ pc \in {"map", "shutdown"}
    /\ Pending # {}
    /\ Cardinality(Running) < MaxWorkers
    /\ LET j == CHOOSE j \in Pending : \A j2 \in Pending : j <= j2
       IN  futures' = [futures EXCEPT ![j].state = "running"]
    /\ UNCHANGED <<merkle_vars, service_vars, elgamal_vars, crypto, pc, totals,
                   par_out, ret>>

(* task j returns from sum_candidate(j - 1), or raises *)
PTaskFinish(j) ==
    /\ j \in Running
    /\ futures' = [futures EXCEPT ![j] =
                      [state |-> "done",
                       result |-> sum_candidate(encrypted_votes, j - 1),
                       finished |-> Cardinality(Done) + 1]]
    /\ UNCHANGED <<merkle_vars, service_vars, elgamal_vars, crypto, pc, totals,
                   par_out, ret>>

(* the future the caller takes last among those that have completed *)
LastDoneFuture ==
    IF Done # {} THEN CHOOSE j \in Done : \A j2 \in Done : j2 <= j
    ELSE Len(totals) + 1

(* the future whose result the iterator of executor.map waits for: the     *)
(* futures are kept and consumed in the order of submission                *)
NextFuture == Len(totals) + 1

(* list(executor.map(...)) takes the next result in candidate order; an    *)
(* exception cancels the futures still pending and leaves the with block   *)
PCollect ==
    /\ pc = "map"
    /\ Len(totals) < Len(futures)
    /\ LET f == futures[NextFuture]
       IN  /\ f.state = "done"
           /\ IF f.result.raised = ""
              THEN /\ totals' = Append(totals, f.result.value)
                   /\ UNCHANGED <<pc, futures, par_out>>
              ELSE /\ pc' = "shutdown"
                   /\ par_out' = f.result
                   /\ futures' = [j \in 1..Len(futures) |->
                                     IF futures[j].state = "pending"
                                     THEN [futures[j] EXCEPT !.state = "cancelled"]
                                     ELSE futures[j]]
                   /\ UNCHANGED totals
    /\ UNCHANGED <<merkle_vars, service_vars, elgamal_vars, crypto, ret>>

(* mutant: the caller goes on to decrypt without waiting for the tasks *)
PShutdownNoJoin ==
    /\ \/ pc = "map" /\ Len(totals) >= 1 /\ pc' = "decrypt"
       \/ pc = "shutdown" /\ pc' = "done"
    /\ UNCHANGED <<merkle_vars, service_vars, elgamal_vars, crypto, futures, totals,
                   par_out, ret>>

(* the with block ends: shutdown(wait=True) returns when no task runs *)
PShutdown ==
    /\ \/ pc = "map" /\ Len(totals) = Len(futures) /\ pc' = "decrypt"
       \/ pc = "shutdown" /\ pc' = "done"
    /\ Running = {}
    /\ Pending = {}
    /\ UNCHANGED <<merkle_vars, service_vars, elgamal_vars, crypto, futures, totals,
                   par_out, ret>>

(* results = [self.private_key.decrypt(t) for t in totals]; return results *)
PDecrypt ==
    /\ pc = "decrypt"
    /\ pc' = "done"
    /\ par_out' = DecryptTotals(crypto, totals)
    /\ UNCHANGED <<merkle_vars, service_vars, elgamal_vars, crypto, futures, totals,
                   ret>>

PaillierNext ==
    \/ \E c \in (-1)..MaxCandidates : \E rs \in Obfuscators(MaxCandidates) :
          PCastVote(c, rs)
    \/ \E c \in (-1)..(MaxCandidates + 1) : \E k \in 0..(MaxCandidates + 1) :
          \E rs \in {[i \in 1..(MaxCandidates + 1) |-> r] : r \in {1, 2}} :
             POneHot(c, k, rs)
    \/ PSequentialTally
    \/ PParallelCall
    \/ PTaskStart
    \/ \E j \in 1..(MaxCandidates + 1) : PTaskFinish(j)
    \/ PCollect
    \/ PShutdown
    \/ PDecrypt

SpecPaillier == PaillierInit /\ [][PaillierNext]_vars

(* SpecEmptyTally: the three tallies called on an empty list of ballots:   *)
(* the ElGamal homomorphic_tally with a secret key, or the Paillier        *)
(* homomorphic_tally and homomorphic_tally_parallel of one object          *)

EmptyTallyInit ==
    \/ PaillierInit
    \/ /\ MerkleIdle
       /\ ServiceIdle
       /\ PoolIdle
       /\ kp \in {from_sk(sk) : sk \in 0..SUBGROUP_ORDER}
       /\ inp \in {[kind |-> "ballots", k |-> k, ballots |-> <<>>, max_votes |-> mv] :
                      k \in 0..(MaxCandidates + 1), mv \in 0..MaxVotes}
       /\ ret = [op |-> "init"]

EmptyTallyNext ==
    \/ inp.kind = "ballots" /\ ETally
    \/ inp.kind = "tally" /\ PSequentialTally
    \/ inp.kind = "tally" /\ PParallelCall

SpecEmptyTally == EmptyTallyInit /\ [][EmptyTallyNext]_vars

----------------------------------------------------------------------------
(* crypto/commitment.py: CommitmentScheme *)

SaltLength == 2       \* longest salt, and the length of a generated salt

(* the raw block of one byte of value b *)
Byte(b) == Atom(b + 1)

(* int.to_bytes(length, 'big') without leading zero bytes removed, and the *)
(* variant that keeps only the significant bytes                           *)
RECURSIVE BigEndian(_, _)
BigEndian(v, length) ==
    IF length = 0 THEN <<>>
    ELSE Append(BigEndian(v \div 256, length - 1), Byte(v % 256))

RECURSIVE SignificantBytes(_)
SignificantBytes(v) == IF v = 0 THEN 0 ELSE 1 + SignificantBytes(v \div 256)

to_bytes_minimal(v, length) ==
    IF v < 0 \/ SignificantBytes(v) > length THEN Raise("OverflowError")
    ELSE Ok(BigEndian(v, SignificantBytes(v)))

(* vote.to_bytes(4, 'big') *)
to_bytes(v, length) ==
    IF v < 0 \/ SignificantBytes(v) > length THEN Raise("OverflowError")
    ELSE Ok(BigEndian(v, length))

SaltBytes == {Byte(0), Byte(1)}

(* secrets.token_bytes(length): any byte string of that length *)
generate_salt(length) == {s \in ListsUpTo(SaltBytes, length) : Len(s) = length}

(* create_commitment(vote, salt) with the salt given or generated *)
create_commitment(vote, salt) ==
    LET data == to_bytes(vote, 4)
    IN  IF data.raised # "" THEN data
        ELSE Ok([commitment |-> SHA256(data.value \o salt), salt |-> salt])

verify_commitment(vote, salt, commitment) ==
    LET data == to_bytes(vote, 4)
    IN  IF data.raised # "" THEN data
        ELSE Ok(SHA256(data.value \o salt) = commitment)

----------------------------------------------------------------------------
(* SpecCommitment: a commitment is created for a vote and a salt, given    *)
(* or generated, and then verified against a revealed vote and salt.       *)

Votes == {-1, 0, 1, 2, 3, 256, 65536, 2147483647}

Salts == ListsUpTo(SaltBytes, SaltLength)

(* the salt argument: <<>> is None, <<s>> is the byte string s *)
SaltArguments == {<<>>} \cup {<<s>> : s \in Salts}

CommitmentInit ==
    /\ MerkleIdle
    /\ ServiceIdle
    /\ kp = NoKey
    /\ PoolIdle
    /\ inp \in {[kind |-> "commitment", vote |-> v, salt |-> s] :
                   v \in Votes, s \in SaltArguments}
    /\ ret = [op |-> "init"]

CCreate ==
    /\ ret.op = "init"
    /\ \E salt \in (IF inp.salt = <<>> THEN generate_salt(SaltLength)
                    ELSE {inp.salt[1]}) :
          ret' = [op |-> "create_commitment",
                  out |-> create_commitment(inp.vote, salt)]
    /\ UNCHANGED <<merkle_vars, service_vars, elgamal_vars, pool_vars>>

(* a digest that may differ from the commitment created *)
OtherDigest == SHA256(<<Byte(0), Byte(0), Byte(0), Byte(0)>>)

(* verify_commitment(vote, salt, c): c is the commitment created (own) or *)
(* the other digest                                                        *)
CVerify(vote, salt, own) ==
    /\ ret.op = "create_commitment"
    /\ ret.out.raised = ""
    /\ LET commitment == IF own THEN ret.out.value.commitment ELSE OtherDigest
       IN  ret' = [op |-> "verify_commitment", created |-> ret.out.value,
                   vote |-> vote, salt |-> salt, commitment |-> commitment,
                   out |-> verify_commitment(vote, salt, commitment)]
    /\ UNCHANGED <<merkle_vars, service_vars, elgamal_vars, pool_vars>>

CommitmentNext ==
    \/ CCreate
    \/ \E v \in Votes, s \in Salts, own \in BOOLEAN : CVerify(v, s, own)

SpecCommitment == CommitmentInit /\ [][CommitmentNext]_vars

----------------------------------------------------------------------------
(* C1: after build(L), verify_proof(L[i], get_proof(i), get_root()) is     *)
(* true for every index i of every non-empty list L, odd or even.          *)
C1_RoundTrip ==
    (ret.op = "verify_proof" /\ ret.how = "genuine") => ret.out = TRUE

(* C2: after build(L), verify_proof against the tree's root is false when  *)
(* the leaf bytes are replaced by different bytes, and when one entry of   *)
(* get_proof(i) has its sibling digest or its direction tag replaced by a  *)
(* different value.                                                        *)
C2_TamperRejected ==
    (ret.op = "verify_proof" /\ ret.how \in {"leaf", "sibling", "direction"})
        => ret.out = FALSE

(* C5: for ballots produced by encrypt_vote_onehot(c_i, k, pk) with        *)
(* pk = sk * G, when every candidate's count is at most max_votes,         *)
(* homomorphic_tally returns the length-k vector of the counts, whose      *)
(* entries sum to the number of ballots.                                   *)
C5_TallyCounts ==
    (/\ ret.op = "homomorphic_tally"
     /\ \A j \in 0..(inp.k - 1) : CountFor(inp.ballots, j) <= inp.max_votes)
        => /\ ret.out.raised = ""
           /\ Len(ret.out.value) = inp.k
           /\ \A j \in 0..(inp.k - 1) :
                 At(ret.out.value, j) = CountFor(inp.ballots, j)
           /\ SumOf(ret.out.value) = Len(inp.ballots)

C5_Witness ==
    /\ ret.op = "homomorphic_tally"
    /\ inp = ScenarioS1
    /\ ret.out.raised = ""
    /\ ret.out.value = <<5, 3, 2>>

(* C6: for sk in [1, n-1], pk = sk * G, any bound M, any m in [0, M] and   *)
(* any r: decrypt(encrypt(m, pk, r), sk, M) = m and                        *)
(* decrypt_to_point(encrypt(m, pk, r), sk) = m * G, the identity for m = 0 *)
C6_DecryptEncrypt ==
    (ret.op = "decrypt" /\ inp.m <= inp.max_value)
        => /\ ret.out.raised = ""
           /\ ret.out.value = inp.m
           /\ ret.point = scalar_mul(inp.m, GENERATOR)
           /\ (inp.m = 0 => ret.point = IDENTITY)

C6_Witness ==
    /\ ret.op = "decrypt"
    /\ inp.m = inp.max_value
    /\ inp.m = MaxMessage
    /\ inp.r = SUBGROUP_ORDER - 1
    /\ kp.sk = SUBGROUP_ORDER - 1
    /\ ret.out.raised = ""
    /\ ret.out.value = inp.m

(* C7: for a non-empty list of ciphertexts encrypt(a_i, pk, r_i) under one *)
(* key whose plaintext sum is at most M, in any order of the list,         *)
(* decrypt(homomorphic_add(list), sk, M) is the sum of the a_i.            *)
C7_HomomorphicSum ==
    (/\ ret.op = "homomorphic_add"
     /\ SumOf([i \in 1..Len(inp.addends) |-> inp.addends[i].m]) <= inp.max_value)
        => /\ ret.out.raised = ""
           /\ ret.out.value = SumOf([i \in 1..Len(inp.addends) |-> inp.addends[i].m])

C7_Witness ==
    /\ ret.op = "homomorphic_add"
    /\ Len(inp.addends) = MaxAddends
    /\ inp.addends[1].m # inp.addends[MaxAddends].m
    /\ ret.out.raised = ""
    /\ ret.out.value = inp.max_value
    /\ ret.out.value > 1

(* C8: for every bound M >= 0 and every m with 0 <= m <= M,                *)
(* solve_dlog(m * G, M) returns m.                                         *)
C8_SolveDlog ==
    (ret.op = "solve_dlog" /\ inp.m <= inp.max_value)
        => ret.out.raised = "" /\ ret.out.value = inp.m

C8_Witness ==
    /\ ret.op = "solve_dlog"
    /\ inp.m = inp.max_value
    /\ inp.m = SUBGROUP_ORDER - 1
    /\ ret.out.raised = ""
    /\ ret.out.value = inp.m

(* C9: when the plaintext m behind a ciphertext, or behind a column sum of *)
(* homomorphic_tally, is outside the search bound (max_value < m < n),     *)
(* solve_dlog, decrypt and homomorphic_tally raise an error: they return   *)
(* no count and no partial vector.                                         *)
C9_OutOfRangeRaises ==
    /\ (ret.op \in {"solve_dlog", "decrypt"} /\ inp.max_value < inp.m)
          => ret.out.raised = "ValueError"
    /\ (/\ ret.op = "homomorphic_tally"
        /\ \E j \in 0..(inp.k - 1) : CountFor(inp.ballots, j) > inp.max_votes)
          => ret.out.raised = "ValueError"

C9_Witness ==
    /\ ret.op = "homomorphic_tally"
    /\ \E j \in 0..(inp.k - 1) : CountFor(inp.ballots, j) > inp.max_votes
    /\ \E j \in 0..(inp.k - 1) : CountFor(inp.ballots, j) <= inp.max_votes
    /\ inp.max_votes > 0
    /\ ret.out.raised = "ValueError"

(* C3: once build_merkle_tree has computed a root (Sealed), every later    *)
(* add_commitment fails with an error and leaves the commitments list      *)
(* unchanged; appends succeed only in the Accepting state.                 *)
C3_NoAppendAfterSeal ==
    [][get_root(tree) # None =>
          /\ commitments' = commitments
          /\ (ret'.op = "add_commitment" => ret'.out.raised # "")]_vars

(* C4: a tally request is rejected with an error unless the tree has been  *)
(* sealed by a prior build: no counts are produced in the Accepting state. *)
C4_NoTallyBeforeSeal ==
    (ret.op = "homomorphic_tally" /\ ret.out.raised = "") => get_root(tree) # None

(* C10: for every list of ballots and every candidate count k, with the    *)
(* same key pair, homomorphic_tally_parallel has the outcome of            *)
(* homomorphic_tally: the same count vector when the sequential tally      *)
(* returns one, and a failure exactly when the sequential tally fails.     *)
C10_ParallelEqualsSequential ==
    (pc = "done" /\ ret.op = "homomorphic_tally")
        => /\ (par_out.raised = "") = (ret.out.raised = "")
           /\ (ret.out.raised = "" => par_out.value = ret.out.value)

(* C11: in homomorphic_tally_parallel, for every order in which the column *)
(* sum tasks complete and any number of workers >= 1, entry j of the       *)
(* returned vector is the decrypted sum of column j: the output is in      *)
(* candidate order, never in completion order.                             *)
C11_OutputInCandidateOrder ==
    (pc = "done" /\ par_out.raised = "" /\ Len(encrypted_votes) > 0)
        => /\ Len(par_out.value) = inp.num_candidates
           /\ \A j \in 1..inp.num_candidates :
                 par_out.value[j] =
                    private_key_decrypt(crypto.private_key,
                        sum_candidate(encrypted_votes, j - 1).value).value

C11_Witness ==
    /\ pc = "done"
    /\ par_out.raised = ""
    /\ Len(futures) = 2
    /\ futures[2].finished < futures[1].finished
    /\ par_out.value = <<2, 0>>

(* C12: for a vote v in [0, 2^32), a salt s and a digest c,               *)
(* verify_commitment(v, s, c) is true exactly when c is the SHA-256 digest *)
(* of the 4 big-endian bytes of v followed by s; so it is true for the     *)
(* commitment created from v and s, and false for that commitment with a   *)
(* different vote or a different salt.                                     *)
C12_CommitmentBinding ==
    (ret.op = "verify_commitment" /\ ret.vote >= 0)
        => /\ ret.out.raised = ""
           /\ ret.out.value =
                 (ret.commitment = SHA256(BigEndian(ret.vote, 4) \o ret.salt))
           /\ ret.commitment = ret.created.commitment
                 => (ret.out.value = (ret.vote = inp.vote /\ ret.salt = ret.created.salt))

C12_Witness ==
    /\ ret.op = "verify_commitment"
    /\ inp.vote = 2
    /\ ret.vote = 3
    /\ ret.salt = ret.created.salt
    /\ ret.commitment = ret.created.commitment
    /\ ret.out.raised = ""
    /\ ret.out.value = FALSE

(* C13: for 0 <= cid < k and pk = sk * G, encrypt_vote_onehot(cid, k, pk)  *)
(* with or without a randomness list returns exactly k ciphertexts that    *)
(* decrypt to 1 at position cid and to 0 at every other position; a rerun  *)
(* with the same randomness list returns identical ciphertexts.            *)
C13_OneHot ==
    (/\ ret.op = "encrypt_vote_onehot"
     /\ 0 <= inp.candidate_id /\ inp.candidate_id < inp.num_candidates
     /\ Len(ret.randomness_list) = inp.num_candidates)
        => /\ ret.out.raised = ""
           /\ Len(ret.out.value) = inp.num_candidates
           /\ \A i \in 1..inp.num_candidates :
                 /\ ret.decrypted[i].raised = ""
                 /\ ret.decrypted[i].value = IF i - 1 = inp.candidate_id THEN 1 ELSE 0
           /\ ret.rerun.raised = ""
           /\ ret.rerun.value = ret.out.value

C13_Witness ==
    /\ ret.op = "encrypt_vote_onehot"
    /\ inp.candidate_id = 1
    /\ inp.num_candidates = 3
    /\ inp.randomness_list = <<>>
    /\ ret.out.raised = ""
    /\ [i \in 1..3 |-> ret.decrypted[i].value] = <<0, 1, 0>>

(* C14: encrypt_vote_onehot fails with an error and returns no ciphertexts *)
(* whenever cid < 0, cid >= k, or a caller-supplied randomness list has a  *)
(* length different from k.                                                *)
C14_OneHotRejects ==
    (/\ ret.op = "encrypt_vote_onehot"
     /\ \/ inp.candidate_id < 0
        \/ inp.candidate_id >= inp.num_candidates
        \/ /\ inp.randomness_list # <<>>
           /\ Len(inp.randomness_list[1]) # inp.num_candidates)
        => ret.out.raised # "" /\ ret.out.value = <<>>

C14_Witness ==
    /\ ret.op = "encrypt_vote_onehot"
    /\ inp.candidate_id = 0
    /\ inp.num_candidates = 2
    /\ inp.randomness_list # <<>>
    /\ Len(ret.randomness_list) = 3
    /\ ret.out.raised = "ValueError"

(* C15, as stated: for the same message and public key, encrypt with two   *)
(* distinct caller-supplied randomness values returns ciphertexts whose C1 *)
(* components differ, and with the same randomness identical ciphertexts.  *)
C15_DistinctRandomness ==
    ret.op = "encrypt"
        => /\ inp.r1 # inp.r2 => ret.ct1.c1 # ret.ct2.c1
           /\ inp.r1 = inp.r2 => ret.ct1 = ret.ct2
           /\ ret.rerun = ret.ct1

(* C15, amended: the C1 components differ when the two randomness values   *)
(* differ modulo the subgroup order n, in particular for distinct values   *)
(* in [0, n); they are equal when the values agree modulo n; the same m,   *)
(* pk and r give identical ciphertexts.                                    *)
C15_DistinctRandomnessModN ==
    ret.op = "encrypt"
        => /\ inp.r1 % SUBGROUP_ORDER # inp.r2 % SUBGROUP_ORDER
                 => ret.ct1.c1 # ret.ct2.c1
           /\ inp.r1 = inp.r2 => ret.ct1 = ret.ct2
           /\ ret.rerun = ret.ct1

C15_Witness ==
    /\ ret.op = "encrypt"
    /\ inp.r1 = 1
    /\ inp.r2 = SUBGROUP_ORDER - 1
    /\ ret.ct1.c1 # ret.ct2.c1
    /\ ret.ct1.c1 = GENERATOR

(* C16: every ElGamalKeyPair made by generate() or by from_sk(sk), for any *)
(* integer sk passed, has sk in [1, n-1], pk on the curve and pk = sk * G. *)
C16_KeyPairInvariant ==
    ret.op \in {"generate", "from_sk"}
        => /\ kp.sk \in 1..(SUBGROUP_ORDER - 1)
           /\ is_on_curve(kp.pk)
           /\ kp.pk = scalar_mul(kp.sk, GENERATOR)

(* C17: from_dict reports a point that fails the curve-membership check as *)
(* an error and never returns a key pair whose pk is off the curve, while  *)
(* from_dict(to_dict()) returns the same sk and pk for a valid key pair.   *)
C17_FromDictOnCurve ==
    ret.op = "from_dict"
        => /\ ret.raised = "" => is_on_curve(kp.pk)
           /\ (ret.how = "to_dict" /\ ret.before.sk \in 1..(SUBGROUP_ORDER - 1))
                 => ret.raised = "" /\ kp = ret.before

C19_IndicesFromZero ==
    [][IF ret'.op = "add_commitment" /\ ret'.out.raised = ""
       THEN /\ ret'.out.value = Len(commitments)
            /\ Len(commitments') = Len(commitments) + 1
            /\ \A i \in 1..Len(commitments) : commitments'[i] = commitments[i]
            /\ At(commitments', ret'.out.value) \in CommitmentValues
       ELSE commitments' = commitments]_vars

C19_Witness ==
    /\ ret.op = "add_commitment"
    /\ ret.sealed
    /\ ret.out.raised = ""
    /\ ret.out.value = 2
    /\ Len(commitments) = 3
    /\ Len(tree[1]) = 1

(* C20: for all points P, Q, R of the subgroup generated by G, point_add   *)
(* is commutative and associative, P + (0, 1) = P, P + point_neg(P) is     *)
(* (0, 1), scalar_mul(n, G) = (0, 1), and every result is on the curve.    *)
C20_GroupLaws ==
    ret.op = "point_add"
        => /\ ret.PQ = ret.QP
           /\ ret.PQ_R = ret.P_QR
           /\ ret.P_0 = ret.P
           /\ ret.P_negP = IDENTITY
           /\ ret.nG = IDENTITY
           /\ \A X \in {ret.P, ret.Q, ret.R, ret.PQ, ret.QP, ret.PQ_R, ret.P_QR,
                         ret.P_0, ret.P_negP, ret.nG} : is_on_curve(X)

C20_Witness ==
    /\ ret.op = "point_add"
    /\ ret.P = GENERATOR
    /\ ret.Q # ret.P /\ ret.Q # IDENTITY /\ ret.Q # point_neg(ret.P)
    /\ ret.R # ret.P /\ ret.R # ret.Q /\ ret.R # IDENTITY
    /\ ret.PQ_R = ret.P_QR
    /\ ret.PQ_R # IDENTITY
    /\ is_on_curve(ret.PQ_R)

(* C21: PaillierCrypto.encrypt_vote_onehot parallels the ElGamal function: *)
(* with a public key set, for every (cid, k) with 0 <= cid < k it returns  *)
(* k ciphertexts that decrypt to 1 at position cid and to 0 elsewhere, and *)
(* it fails exactly when cid < 0 or cid >= k.                              *)
C21_PaillierOneHot ==
    ret.op = "paillier_onehot"
        => IF 0 <= ret.candidate_id /\ ret.candidate_id < ret.num_candidates
           THEN /\ ret.out.raised = ""
                /\ Len(ret.out.value) = ret.num_candidates
                /\ \A i \in 1..ret.num_candidates :
                      /\ ret.decrypted[i].raised = ""
                      /\ ret.decrypted[i].value =
                            IF i - 1 = ret.candidate_id THEN 1 ELSE 0
           ELSE ret.out.raised # ""

(* C22: get_proof(i) and get_proof_hex(i) raise an error and return no     *)
(* proof for every i < 0 and every i >= the number of leaves of the last   *)
(* build, which is every index when no tree has been built yet.            *)
C22_OutOfRangeIndex ==
    (ret.op = "get_merkle_proof" /\ (ret.index < 0 \/ ret.index >= Len(leaves)))
        => ret.out.raised = "IndexError" /\ ret.out.value = <<>>

C22_Witness ==
    /\ ret.op = "get_merkle_proof"
    /\ Len(leaves) = 2
    /\ Len(commitments) = 3
    /\ ret.index = 2
    /\ ret.out.raised = "IndexError"

(* C23, as stated: a tally over an empty ballot list returns the all-zero  *)
(* vector of length k, for the ElGamal homomorphic_tally([], k, sk) with   *)
(* every sk and for the Paillier homomorphic_tally([], k) and              *)
(* homomorphic_tally_parallel([], k), and no homomorphic addition is       *)
(* called: the parallel tally submits no column task.                      *)
C23_EmptyTally ==
    /\ (inp.kind = "ballots" /\ ret.op = "homomorphic_tally")
          => ret.out = Ok([j \in 1..inp.k |-> 0])
    /\ (inp.kind = "tally" /\ ret.op = "homomorphic_tally")
          => ret.out = Ok([j \in 1..inp.num_candidates |-> 0])
    /\ (inp.kind = "tally" /\ pc = "done")
          => /\ par_out = Ok([j \in 1..inp.num_candidates |-> 0])
             /\ futures = <<>>

(* C23, amended: the same, the two Paillier tallies being called on an     *)
(* object that holds a private key; without one they raise ValueError,     *)
(* empty list or not.                                                      *)
C23_EmptyTallyWithKey ==
    /\ (inp.kind = "ballots" /\ ret.op = "homomorphic_tally")
          => ret.out = Ok([j \in 1..inp.k |-> 0])
    /\ (inp.kind = "tally" /\ ret.op = "homomorphic_tally")
          => ret.out = IF crypto.private_key # NoPrivateKey
                       THEN Ok([j \in 1..inp.num_candidates |-> 0])
                       ELSE Raise("ValueError")
    /\ (inp.kind = "tally" /\ pc = "done")
          => /\ par_out = IF crypto.private_key # NoPrivateKey
                          THEN Ok([j \in 1..inp.num_candidates |-> 0])
                          ELSE Raise("ValueError")
             /\ futures = <<>>
    /\ pc \in {"idle", "done"}

C23_Witness ==
    /\ inp.kind = "tally"
    /\ inp.num_candidates = MaxCandidates + 1
    /\ inp.max_workers = <<0>>
    /\ encrypted_votes = <<>>
    /\ ret.op = "homomorphic_tally"
    /\ pc = "done"
    /\ ret.out = Ok([j \in 1..(MaxCandidates + 1) |-> 0])
    /\ par_out = ret.out

(* C24: MerkleTree.build([]) fails with an error and leaves a previously   *)
(* built tree unchanged: the leaves, the layers, the root and the proof of *)
(* every index are the same as before the failed call.                     *)
C24_EmptyBuildFails ==
    [][(ret'.op = "build" /\ ret'.data = <<>>)
          => /\ ret'.out.raised = "ValueError"
             /\ leaves' = leaves
             /\ tree' = tree
             /\ get_root(tree') = get_root(tree)
             /\ \A i \in (-1)..MaxBuildLeaves :
                   get_proof(leaves', tree', i) = get_proof(leaves, tree, i)]_vars

C24_Witness ==
    /\ ret.op = "build"
    /\ ret.data = <<>>
    /\ ret.out.raised = "ValueError"
    /\ Len(leaves) = 3
    /\ get_root(tree) = hash_pair(hash_pair(leaves[1], leaves[2]),
                                  hash_pair(leaves[3], leaves[3]))
    /\ get_proof(leaves, tree, 2).raised = ""

(* C25: at every level of the walk of get_proof, the leaf layer and every  *)
(* internal layer, an entry is omitted exactly when the current node is    *)
(* the unpaired last node of an odd-sized layer; at every other level the  *)
(* sibling at index XOR 1 is recorded, tagged 'R' when the current index   *)
(* is even and 'L' when it is odd.  C25_Walk is that walk over the layers  *)
(* of the tree: the leaf digests, then the parents of each layer.          *)
RECURSIVE C25_Walk(_, _)
C25_Walk(layer, current_index) ==
    IF Len(layer) <= 1 THEN <<>>
    ELSE LET n == Len(layer)
             entry == IF n % 2 = 1 /\ current_index = n - 1 THEN <<>>
                      ELSE IF current_index % 2 = 0
                      THEN <<[sibling |-> At(layer, current_index + 1),
                              direction |-> "R"]>>
                      ELSE <<[sibling |-> At(layer, current_index - 1),
                              direction |-> "L"]>>
         IN  entry \o C25_Walk(Parents(PadOdd(layer)), current_index \div 2)

C25_OmittedAtOddTail ==
    (ret.op = "get_proof" /\ ret.out.raised = "")
        => ret.out.value = C25_Walk(leaves, ret.index)

(* C26: the tree is rebuilt whenever its leaves change: in every reachable *)
(* state of a VotingService in which a root exists, the root is the Merkle *)
(* root of the current commitments list, and every index add_commitment    *)
(* has returned has a proof that verifies against it.                      *)
C26_TreeFollowsCommitments ==
    get_root(tree) # None
        => /\ get_root(tree) = get_root(BuildTree(commitments))
           /\ \A i \in 0..(Len(commitments) - 1) :
                 /\ get_proof(leaves, tree, i).raised = ""
                 /\ verify_proof(At(commitments, i),
                                 get_proof(leaves, tree, i).value, get_root(tree))

(* C27: homomorphic_tally_parallel is a fork-join: no column sum is        *)
(* decrypted before all k column tasks have completed, and the tasks share *)
(* only the ballots and the public key, which they read and never write:   *)
(* a step of a task changes its own future and nothing else.               *)
C27_ForkJoin ==
    [][/\ (pc = "decrypt" \/ pc' = "decrypt")
             => /\ Len(futures) = inp.num_candidates
                /\ \A j \in 1..Len(futures) : futures[j].state = "done"
                /\ \A j \in 1..Len(futures) : futures'[j] = futures[j]
       /\ (pc' = pc /\ futures' # futures)
             => /\ encrypted_votes' = encrypted_votes
                /\ crypto' = crypto
                /\ totals' = totals
                /\ par_out' = par_out
                /\ Len(futures') = Len(futures)
                /\ Cardinality({j \in 1..Len(futures) : futures'[j] # futures[j]}) = 1]_vars

C27_Witness ==
    /\ pc = "decrypt"
    /\ Len(encrypted_votes) = MaxBallots
    /\ Len(futures) = MaxCandidates
    /\ \A j \in 1..Len(futures) : futures[j].state = "done"
    /\ futures[MaxCandidates].finished = 1
    /\ Len(totals) = MaxCandidates

(* C28, as stated: for every bound M, solve_dlog uses the step size        *)
(* s = ceil(sqrt(M)) + 1: the baby table holds j * G for j in [0, s), the  *)
(* giant-step loop examines i in [0, s] and returns i * s + baby[current]  *)
(* only when that value is <= M.  C28_Steps states the rest for a step     *)
(* size s.                                                                 *)
C28_Steps(s) ==
    /\ ret.trace.step_size = s
    /\ ret.trace.baby_steps = [j \in 1..s |-> scalar_mul(j - 1, GENERATOR)]
    /\ \E last \in 0..s : ret.trace.examined = [i \in 1..(last + 1) |-> i - 1]
    /\ IF ret.out.raised = ""
       THEN /\ ret.out.value <= inp.max_value
            /\ \E j \in 0..(s - 1) :
                  ret.out.value =
                     ret.trace.examined[Len(ret.trace.examined)] * s + j
       ELSE Len(ret.trace.examined) = s + 1

C28_StepSizeCeil ==
    (ret.op = "solve_dlog" /\ inp.m # 0)
        => \E c \in 0..inp.max_value :
              /\ c * c >= inp.max_value
              /\ (c = 0 \/ (c - 1) * (c - 1) < inp.max_value)
              /\ C28_Steps(c + 1)

(* C28, amended: the step size is s = floor(sqrt(M)) + 1, the integer with *)
(* (s - 1)^2 <= M < s^2; the table and the loop are as stated.             *)
C28_StepSizeFloor ==
    (ret.op = "solve_dlog" /\ inp.m # 0)
        => \E s \in 1..(inp.max_value + 1) :
              /\ (s - 1) * (s - 1) <= inp.max_value
              /\ inp.max_value < s * s
              /\ C28_Steps(s)

C28_Witness ==
    /\ ret.op = "solve_dlog"
    /\ inp.max_value = 8
    /\ inp.m = 8
    /\ ret.trace.step_size = 3
    /\ ret.trace.examined = <<0, 1, 2>>
    /\ ret.out = Ok(8)

(* C29: inclusion soundness: for a tree built over the leaves L, if        *)
(* verify_proof(x, p, root) returns true for a byte string x and a proof   *)
(* p, issued by get_proof or not, then x is one of the leaves in L (the    *)
(* digest being collision-free).                                           *)
C29_InclusionSound ==
    (ret.op = "verify_proof" /\ ret.how = "any" /\ ret.out = TRUE)
        => \E i \in 1..Len(data_list) : ret.leaf = data_list[i]

(* C30: the proof route serves the tree the submit and build routes        *)
(* populate: after N commitments have been submitted and build_merkle_tree *)
(* has succeeded on them, get_merkle_proof(i) of the verify router returns *)
(* the proof of leaf i for every 0 <= i < N.                               *)
C30_ProofRouteServesTree ==
    (/\ ret.op = "verify.get_merkle_proof"
     /\ get_root(tree) # None
     /\ leaves = BuildLeaves(commitments)
     /\ 0 <= ret.index /\ ret.index < Len(commitments))
        => ret.out = get_proof_hex(leaves, tree, ret.index)

====










